---- MODULE Spec2Model ----
(***************************************************************************)
(* Deadline Tracker (src/src/App.jsx): the tracker collection and display  *)
(* mode held in React state, their persistence to one localStorage entry,  *)
(* the one-second ticker and the progress figures derived per tracker.     *)
(*                                                                         *)
(* Instants are milliseconds on a small scale.  A JS string is a sequence  *)
(* of one-character strings.  A JS number is an integer, NaN is the value  *)
(* NaN below and a JS null held in a numeric field is JsNullNum.  The real *)
(* valued percent is an exact fraction [num, den]; IEEE division and       *)
(* multiplication are monotone, so order and the exact value at 0 and 100  *)
(* carry over to the doubles the code computes.  The mount runs in three   *)
(* steps (load effect, persist effect, commit of the queued updates); a    *)
(* handler runs in one step, its render and persist effect included.       *)
(***************************************************************************)
EXTENDS Integers, Sequences, FiniteSets, TLC

VARIABLES
  clock,          \* the wall clock read by Date.now()
  goalInput,      \* useState("")            App.jsx:206
  deadlineInput,  \* useState("")            App.jsx:207
  trackers,       \* useState([])            App.jsx:208
  now,            \* useState(Date.now())    App.jsx:209
  mode,           \* useState("circular")    App.jsx:210
  storage,        \* localStorage["deadline-tracker-state"]
  pc,             \* where the component is: load, persist, commit, ready, crashed
  raw,            \* the entry the load effect read first, while the mount runs
  queued,         \* state updates queued by the load effect
  event           \* the last handler or effect that ran, with its alert if any

vars == <<clock, goalInput, deadlineInput, trackers, now, mode, storage, pc,
          raw, queued, event>>

----------------------------------------------------------------------------
(* Bounds *)

MaxClock == 2       \* the clock runs from 1 to MaxClock
MaxDrift == 1       \* most milliseconds passing between two clock reads of one handler
MaxTrackers == 2    \* most trackers held at once
MaxInstant == 9     \* instants of the time-math specification are 0..MaxInstant
MaxDays == 2        \* deadlines of the duration specification: up to MaxDays days
MaxUnits == 60      \*   and MaxUnits seconds, minutes or hours before or after the present,
MaxOffset == 1      \*   seen up to MaxOffset milliseconds early or late

----------------------------------------------------------------------------
(* JS values *)

NaN == 0 - 1000001          \* the number NaN
JsNullNum == 0 - 1000002    \* a JS null where a number is expected
Undefined == 0 - 1000003    \* the value of a property an object lacks
JsNull == [js |-> "null"]   \* a JS null where an object is expected

IsNumber(x) == x \notin {NaN, JsNullNum, Undefined}

mathMax(a, b) == IF a >= b THEN a ELSE b
mathMin(a, b) == IF a <= b THEN a ELSE b

\* const clamp = (n, min, max) => Math.max(min, Math.min(n, max));
clamp(n, min, max) == mathMax(min, mathMin(n, max))

\* a <= b of JS: false when either side is NaN
jsLessEq(a, b) == a # NaN /\ b # NaN /\ a <= b

QUOTES == <<"Small steps, every second.", "Your future self is watching.",
            "Momentum loves consistency.", "Done is better than perfect.",
            "Focus on the next minute.", "Tiny progress beats no progress.",
            "Show up for your goal.", "Make time your ally.",
            "Every tick is a chance.", "You've got this-keep going.">>

\* Math.random() in hundredths: the draws the model takes
RandomDraws == {0, 99}

\* Math.floor(Math.random() * QUOTES.length)
randomQuoteIndex(r) == (r * Len(QUOTES)) \div 100

----------------------------------------------------------------------------
(* Strings: trim and the parse of the deadline text *)

Whitespace == {" "}

RECURSIVE trimStart(_)
trimStart(s) ==
  IF s # <<>> /\ Head(s) \in Whitespace THEN trimStart(Tail(s)) ELSE s

RECURSIVE trimEnd(_)
trimEnd(s) ==
  IF s # <<>> /\ s[Len(s)] \in Whitespace
  THEN trimEnd(SubSeq(s, 1, Len(s) - 1)) ELSE s

\* String.prototype.trim
trim(s) == trimEnd(trimStart(s))

Digits == <<"0", "1", "2", "3", "4", "5", "6", "7", "8", "9">>

IsDigit(c) == \E i \in DOMAIN Digits : Digits[i] = c

DigitValue(c) == (CHOOSE i \in DOMAIN Digits : Digits[i] = c) - 1

RECURSIVE decimal(_)
decimal(s) ==
  IF s = <<>> THEN 0
  ELSE 10 * decimal(SubSeq(s, 1, Len(s) - 1)) + DigitValue(s[Len(s)])

\* dayjs(deadlineInput).valueOf(): the instant the text names, NaN when the
\* text names none (the empty text included)
dayjsValueOf(s) ==
  IF s # <<>> /\ \A i \in DOMAIN s : IsDigit(s[i]) THEN decimal(s) ELSE NaN

\* what the user types into the two inputs
GoalTexts == {<<>>, <<" ">>, <<" ", "a", " ">>}
DeadlineTexts == {<<>>, <<"x">>, <<"2">>, <<"5">>}

----------------------------------------------------------------------------
(* The persisted entry: JSON.stringify and JSON.parse *)

JNull == [t |-> "null"]
JNum(n) == [t |-> "num", v |-> n]
JStr(s) == [t |-> "str", v |-> s]
JArr(a) == [t |-> "arr", v |-> a]
JObj(o) == [t |-> "obj", v |-> o]

Absent == [kind |-> "absent"]      \* getItem returns null
EmptyText == [kind |-> "empty"]    \* the entry is ""
NotJson == [kind |-> "notjson"]    \* JSON.parse throws SyntaxError
JsonText(doc) == [kind |-> "json", doc |-> doc]

\* JSON.stringify of one property of a tracker: goal is a string, the others
\* are numbers, and a NaN is written as null
stringifyField(k, x) ==
  IF k = "goal" THEN JStr(x)
  ELSE IF x \in {NaN, JsNullNum} THEN JNull ELSE JNum(x)

stringifyElement(tr) ==
  IF tr = JsNull THEN JNull
  ELSE JObj([k \in DOMAIN tr |-> stringifyField(k, tr[k])])

\* JSON.stringify({ trackers, mode })
stringify(ts, m) ==
  JsonText(JObj([trackers |-> JArr([i \in DOMAIN ts |-> stringifyElement(ts[i])]),
                 mode |-> JStr(m)]))

parseField(d) == IF d.t = "null" THEN JsNullNum ELSE d.v

parseElement(d) ==
  IF d.t = "null" THEN JsNull
  ELSE [k \in DOMAIN d.v |-> parseField(d.v[k])]

\* s.trackers of the parsed document, once Array.isArray has accepted it
parseArray(d) == [i \in DOMAIN d.v |-> parseElement(d.v[i])]

HasMember(doc, k) == doc.t = "obj" /\ k \in DOMAIN doc.v

\* Optional values: <<>> is none, <<x>> is x
None == <<>>
Some(x) == <<x>>
NoUpdates == [trackers |-> None, mode |-> None]

\* if (s.mode): the mode of the document when it is truthy
truthyMode(doc) ==
  IF HasMember(doc, "mode") /\ doc.v.mode.t = "str" /\ doc.v.mode.v # ""
  THEN Some(doc.v.mode.v) ELSE None

\* if (Array.isArray(s.trackers))
arrayOfTrackers(doc) ==
  IF HasMember(doc, "trackers") /\ doc.v.trackers.t = "arr"
  THEN Some(parseArray(doc.v.trackers)) ELSE None

\* loadUpdates with the restore of the mode forgotten
loadUpdatesWithoutMode(r) ==
  IF r.kind # "json" THEN NoUpdates
  ELSE IF r.doc.t = "null" THEN NoUpdates
  ELSE [trackers |-> arrayOfTrackers(r.doc), mode |-> None]

\* The body of the load effect: the updates it queues for the entry r.
\* A falsy raw skips the body; a SyntaxError of JSON.parse and the TypeError
\* of null.trackers are swallowed by the empty catch.
loadUpdates(r) ==
  IF r.kind # "json" THEN NoUpdates
  ELSE IF r.doc.t = "null" THEN NoUpdates
  ELSE [trackers |-> arrayOfTrackers(r.doc), mode |-> truthyMode(r.doc)]

applyUpdate(old, u) == IF u = None THEN old ELSE u[1]

----------------------------------------------------------------------------
(* Trackers and the figures TrackerCard derives *)

TrackerFields == {"id", "goal", "startTime", "deadline", "quoteIndex"}

IsTracker(tr) ==
  /\ DOMAIN tr = TrackerFields
  /\ IsNumber(tr.id) /\ IsNumber(tr.startTime) /\ IsNumber(tr.deadline)

\* tr.id, undefined when the element has no such property
idOf(tr) == IF "id" \in DOMAIN tr THEN tr.id ELSE Undefined

\* Fractions num/den with den > 0
Frac(n, d) == [num |-> n, den |-> d]
fracLessEq(p, q) == p.num * q.den <= q.num * p.den
fracEq(p, q) == p.num * q.den = q.num * p.den
fracMax(p, q) == IF fracLessEq(q, p) THEN p ELSE q
fracMin(p, q) == IF fracLessEq(p, q) THEN p ELSE q

\* clamp on the real-valued percent
clampFrac(n, min, max) == fracMax(min, fracMin(n, max))

\* (elapsedMs / totalMs) * 100
percentOf(elapsedMs, totalMs) == Frac(elapsedMs * 100, totalMs)

\* TrackerCard with remainingMs = deadline - now, the Math.max(0, ...) left out
TrackerCardNegativeRemaining(tracker, n) ==
  LET totalMs == mathMax(1, tracker.deadline - tracker.startTime)
      elapsedMs == clamp(n - tracker.startTime, 0, totalMs)
      remainingMs == tracker.deadline - n
      percent == clampFrac(percentOf(elapsedMs, totalMs), Frac(0, 1), Frac(100, 1))
  IN [totalMs |-> totalMs, elapsedMs |-> elapsedMs,
      remainingMs |-> remainingMs, percent |-> percent]

\* TrackerCard with the percent taken of the remaining time, not the elapsed
TrackerCardPercentOfRemaining(tracker, n) ==
  LET totalMs == mathMax(1, tracker.deadline - tracker.startTime)
      elapsedMs == clamp(n - tracker.startTime, 0, totalMs)
      remainingMs == mathMax(0, tracker.deadline - n)
      percent == clampFrac(percentOf(remainingMs, totalMs), Frac(0, 1), Frac(100, 1))
  IN [totalMs |-> totalMs, elapsedMs |-> elapsedMs,
      remainingMs |-> remainingMs, percent |-> percent]

\* TrackerCard for a tracker whose instants are numbers:
\*   totalMs = Math.max(1, deadline - startTime)
\*   elapsedMs = clamp(now - startTime, 0, totalMs)
\*   remainingMs = Math.max(0, deadline - now)
\*   percent = clamp((elapsedMs / totalMs) * 100, 0, 100)
TrackerCard(tracker, n) ==
  LET totalMs == mathMax(1, tracker.deadline - tracker.startTime)
      elapsedMs == clamp(n - tracker.startTime, 0, totalMs)
      remainingMs == mathMax(0, tracker.deadline - n)
      percent == clampFrac(percentOf(elapsedMs, totalMs), Frac(0, 1), Frac(100, 1))
  IN [totalMs |-> totalMs, elapsedMs |-> elapsedMs,
      remainingMs |-> remainingMs, percent |-> percent]

\* The derived times of the single-tracker variant (useMemo):
\*   if (!tracking) return { totalMs: 0, elapsedMs: 0, remainingMs: 0, percent: 0 }
derivedTimes(tracking, startTime, deadline, n) ==
  IF ~tracking
  THEN [totalMs |-> 0, elapsedMs |-> 0, remainingMs |-> 0, percent |-> Frac(0, 1)]
  ELSE LET t == mathMax(1, deadline - startTime)
           e == clamp(n - startTime, 0, t)
           r == mathMax(0, deadline - n)
           p == clampFrac(percentOf(e, t), Frac(0, 1), Frac(100, 1))
       IN [totalMs |-> t, elapsedMs |-> e, remainingMs |-> r, percent |-> p]

\* msToDHMS with the hours taken of all the seconds, the % 86400 left out
msToDHMSHoursOfTotal(ms) ==
  LET totalSeconds == mathMax(0, ms \div 1000)
      days == totalSeconds \div 86400
      hours == totalSeconds \div 3600
      minutes == (totalSeconds % 3600) \div 60
      seconds == totalSeconds % 60
  IN [days |-> days, hours |-> hours, minutes |-> minutes, seconds |-> seconds]

\* function msToDHMS(ms):
\*   totalSeconds = Math.max(0, Math.floor(ms / 1000))
\*   days = Math.floor(totalSeconds / 86400)
\*   hours = Math.floor((totalSeconds % 86400) / 3600)
\*   minutes = Math.floor((totalSeconds % 3600) / 60)
\*   seconds = totalSeconds % 60
\* (\div rounds down, as Math.floor of the quotient does)
msToDHMS(ms) ==
  LET totalSeconds == mathMax(0, ms \div 1000)
      days == totalSeconds \div 86400
      hours == (totalSeconds % 86400) \div 3600
      minutes == (totalSeconds % 3600) \div 60
      seconds == totalSeconds % 60
  IN [days |-> days, hours |-> hours, minutes |-> minutes, seconds |-> seconds]

\* const remainingMs = Math.max(0, deadline - now);
\* const { days, hours, minutes, seconds } = msToDHMS(remainingMs)
remainingParts(tracker, n) == msToDHMS(mathMax(0, tracker.deadline - n))

\* const { goal, startTime, deadline, quoteIndex, id } = tracker throws a
\* TypeError when the element is null
renderThrows(ts) == \E i \in DOMAIN ts : ts[i] = JsNull

----------------------------------------------------------------------------
(* The entries the browser may hold when the application starts *)

Tracker0 == [id |-> 0, goal |-> <<"a">>, startTime |-> 0, deadline |-> 2,
             quoteIndex |-> 0]

InitialEntries ==
  { Absent, EmptyText, NotJson,
    JsonText(JNull),
    JsonText(JNum(7)),
    JsonText(JObj([trackers |-> JStr("x"), mode |-> JStr("circular")])),
    JsonText(JObj([trackers |-> JArr(<<JNull>>), mode |-> JStr("circular")])),
    JsonText(JObj([trackers |-> JArr(<<JObj([foo |-> JNum(1)])>>),
                   mode |-> JStr("circular")])),
    JsonText(JObj([trackers |-> JArr(<<>>), mode |-> JStr("zigzag")])),
    stringify(<<>>, "circular"),
    stringify(<<Tracker0>>, "bar") }

----------------------------------------------------------------------------
(* Events *)

Ev(by, alert) == [by |-> by, alert |-> alert]

EmptyGoal == "Please enter a goal name."
InvalidDeadline == "Please set a valid deadline date & time."
PastDeadline == "Deadline must be in the future."

----------------------------------------------------------------------------
(* Application start *)

\* the first render: every useState holds its initial value
Mounted ==
  /\ goalInput = <<>>
  /\ deadlineInput = <<>>
  /\ trackers = <<>>
  /\ now = clock
  /\ mode = "circular"
  /\ pc = "load"
  /\ raw = Absent
  /\ queued = NoUpdates
  /\ event = Ev("mount", "")

Init ==
  /\ clock = 1
  /\ storage \in InitialEntries
  /\ Mounted

\* An error thrown while rendering or in an effect is caught by nothing:
\* React unmounts the tree, and the state of the component is gone (the
\* variables take their initial values again). The entry stays as it is.
Unmounted(by) ==
  /\ pc' = "crashed"
  /\ trackers' = <<>>
  /\ mode' = "circular"
  /\ goalInput' = <<>>
  /\ deadlineInput' = <<>>
  /\ storage' = storage
  /\ event' = Ev(by, "")

\* The render of the state (ts, m, g, d) and the persist effect that follows
\* it: TrackerCard may throw, and so may localStorage.setItem.
RenderAndPersist(ts, m, g, d, ev) ==
  IF renderThrows(ts)
  THEN Unmounted("TrackerCard")
  ELSE \/ /\ trackers' = ts
          /\ mode' = m
          /\ goalInput' = g
          /\ deadlineInput' = d
          /\ storage' = stringify(ts, m)
          /\ pc' = "ready"
          /\ event' = ev
       \/ Unmounted("persistEffect")

\* useEffect(() => { const raw = localStorage.getItem(...); ... }, [])
LoadEffect ==
  /\ pc = "load"
  /\ raw' = storage
  /\ queued' = loadUpdates(storage)
  /\ pc' = "persist"
  /\ event' = Ev("loadEffect", "")
  /\ UNCHANGED <<clock, goalInput, deadlineInput, trackers, now, mode, storage>>

\* The persist effect of the first render: it writes the state of that
\* render, whatever the load effect has queued.
PersistEffectOnMount ==
  /\ pc = "persist"
  /\ \/ /\ storage' = stringify(trackers, mode)
        /\ pc' = "commit"
        /\ event' = Ev("persistEffect", "")
        /\ UNCHANGED <<goalInput, deadlineInput, trackers, mode>>
     \/ Unmounted("persistEffect")
  /\ raw' = IF pc' = "crashed" THEN Absent ELSE raw
  /\ queued' = IF pc' = "crashed" THEN NoUpdates ELSE queued
  /\ UNCHANGED <<clock, now>>

\* The effects of the mount run once more before the queued updates are
\* applied (React does so for a component under StrictMode in development):
\* the load effect reads the entry the persist effect has just written and
\* queues its updates behind those of the first run, then the persist effect
\* writes the state of the first render again.
laterUpdate(first, second) == IF second = None THEN first ELSE second

EffectsRunAgain ==
  /\ pc = "commit"
  /\ \/ /\ storage' = stringify(trackers, mode)
        /\ pc' = "commit"
        /\ event' = Ev("persistEffect", "")
        /\ UNCHANGED <<goalInput, deadlineInput, trackers, mode>>
     \/ Unmounted("persistEffect")
  /\ raw' = IF pc' = "crashed" THEN Absent ELSE raw
  /\ queued' = IF pc' = "crashed" THEN NoUpdates
               ELSE [trackers |-> laterUpdate(queued.trackers, loadUpdates(storage).trackers),
                     mode |-> laterUpdate(queued.mode, loadUpdates(storage).mode)]
  /\ UNCHANGED <<clock, now>>

\* The queued updates are applied. setTrackers always brings a new array, so
\* the component renders again and the persist effect runs; a setMode of the
\* mode already held changes nothing.
CommitLoaded ==
  /\ pc = "commit"
  /\ LET ts == applyUpdate(trackers, queued.trackers)
         m == applyUpdate(mode, queued.mode)
     IN IF queued.trackers = None /\ m = mode
        THEN /\ pc' = "ready"
             /\ event' = Ev("mount", "")
             /\ UNCHANGED <<goalInput, deadlineInput, trackers, mode, storage>>
        ELSE RenderAndPersist(ts, m, goalInput, deadlineInput, Ev("mount", ""))
  /\ raw' = Absent
  /\ queued' = NoUpdates
  /\ UNCHANGED <<clock, now>>

\* The page is closed and opened again: the component mounts afresh
Reload ==
  /\ goalInput' = <<>>
  /\ deadlineInput' = <<>>
  /\ trackers' = <<>>
  /\ now' = clock
  /\ mode' = "circular"
  /\ pc' = "load"
  /\ raw' = Absent
  /\ queued' = NoUpdates
  /\ event' = Ev("mount", "")
  /\ UNCHANGED <<clock, storage>>

----------------------------------------------------------------------------
(* Time *)

TimePassesUpTo(bound) ==
  /\ clock < bound
  /\ clock' = clock + 1
  /\ UNCHANGED <<goalInput, deadlineInput, trackers, now, mode, storage, pc,
                 raw, queued, event>>

TimePasses == TimePassesUpTo(MaxClock)

\* a ticker that also drops the trackers whose deadline has passed
TickDroppingExpired ==
  /\ pc = "ready"
  /\ now' = clock
  /\ trackers' = SelectSeq(trackers,
                   LAMBDA tr : ~(IsTracker(tr) /\ tr.deadline <= clock))
  /\ event' = Ev("ticker", "")
  /\ UNCHANGED <<clock, goalInput, deadlineInput, mode, storage, pc, raw, queued>>

\* setInterval(() => setNow(Date.now()), 1000)
Tick ==
  /\ pc = "ready"
  /\ now' = clock
  /\ event' = Ev("ticker", "")
  /\ UNCHANGED <<clock, goalInput, deadlineInput, trackers, mode, storage, pc,
                 raw, queued>>

----------------------------------------------------------------------------
(* Handlers *)

\* onChange={(e) => setGoalInput(e.target.value)}
setGoalInput(v) ==
  /\ pc = "ready"
  /\ v # goalInput
  /\ goalInput' = v
  /\ event' = Ev("onChange", "")
  /\ UNCHANGED <<clock, deadlineInput, trackers, now, mode, storage, pc, raw, queued>>

\* onChange={(e) => setDeadlineInput(e.target.value)}
setDeadlineInput(v) ==
  /\ pc = "ready"
  /\ v # deadlineInput
  /\ deadlineInput' = v
  /\ event' = Ev("onChange", "")
  /\ UNCHANGED <<clock, goalInput, trackers, now, mode, storage, pc, raw, queued>>

\* rejection with d < Date.now() for d <= Date.now()
rejectionOnlyBeforeNow(goal, text, t1) ==
  LET d == dayjsValueOf(text)
  IN IF trim(goal) = <<>> THEN EmptyGoal
     ELSE IF text = <<>> \/ d = NaN THEN InvalidDeadline
     ELSE IF d # NaN /\ d < t1 THEN PastDeadline
     ELSE ""

\* The alert handleAddTracker raises for the inputs at the instant t1 of its
\* first clock read, "" when it raises none
rejection(goal, text, t1) ==
  LET d == dayjsValueOf(text)
  IN IF trim(goal) = <<>> THEN EmptyGoal
     ELSE IF text = <<>> \/ d = NaN THEN InvalidDeadline
     ELSE IF jsLessEq(d, t1) THEN PastDeadline
     ELSE ""

\* const newTracker = { id: Date.now(), goal: goalInput.trim(),
\*   startTime: Date.now(), deadline: d, quoteIndex: ... }
newTracker(goal, text, t2, t3, r) ==
  [id |-> t2, goal |-> trim(goal), startTime |-> t3,
   deadline |-> dayjsValueOf(text), quoteIndex |-> randomQuoteIndex(r)]

\* (t) => [...t, newTracker]
appendTracker(t, tr) == Append(t, tr)

\* (t) => t.filter((tr) => tr.id !== id)
removeById(t, id) == SelectSeq(t, LAMBDA tr : idOf(tr) # id)

handleAddTrackerRejected ==
  /\ pc = "ready"
  /\ rejection(goalInput, deadlineInput, clock) # ""
  /\ event' = Ev("handleAddTracker", rejection(goalInput, deadlineInput, clock))
  /\ UNCHANGED <<clock, goalInput, deadlineInput, trackers, now, mode, storage,
                 pc, raw, queued>>

\* The clock is read three times: for the check (t1), the id (t2) and the
\* start time (t3)
handleAddTrackerAccepted ==
  /\ pc = "ready"
  /\ Len(trackers) < MaxTrackers
  /\ rejection(goalInput, deadlineInput, clock) = ""
  /\ \E d1 \in 0..MaxDrift, d2 \in 0..MaxDrift, r \in RandomDraws :
       LET t2 == clock + d1
           t3 == t2 + d2
           ts == appendTracker(trackers,
                   newTracker(goalInput, deadlineInput, t2, t3, r))
       IN /\ t3 <= MaxClock
          /\ clock' = t3
          /\ RenderAndPersist(ts, mode, <<>>, <<>>, Ev("handleAddTracker", ""))
  /\ UNCHANGED <<now, raw, queued>>

handleAddTracker == handleAddTrackerRejected \/ handleAddTrackerAccepted

handleReset ==
  /\ pc = "ready"
  /\ RenderAndPersist(<<>>, mode, <<>>, <<>>, Ev("handleReset", ""))
  /\ UNCHANGED <<clock, now, raw, queued>>

\* the ids handleRemove is called with: those of the cards, and one that no
\* tracker has
RemoveIds == {MaxClock + 1} \cup {idOf(trackers[i]) : i \in DOMAIN trackers}

handleRemove(id) ==
  /\ pc = "ready"
  /\ RenderAndPersist(removeById(trackers, id), mode, goalInput, deadlineInput,
                      Ev("handleRemove", ""))
  /\ UNCHANGED <<clock, now, raw, queued>>

\* the two buttons of the mode toggle
ModeButtons == {"circular", "bar"}

\* onClick={() => setMode("circular")}, onClick={() => setMode("bar")}
setMode(m) ==
  /\ pc = "ready"
  /\ IF m = mode
     THEN /\ event' = Ev("setMode", "")
          /\ UNCHANGED <<goalInput, deadlineInput, trackers, mode, storage, pc>>
     ELSE RenderAndPersist(trackers, m, goalInput, deadlineInput, Ev("setMode", ""))
  /\ UNCHANGED <<clock, now, raw, queued>>

----------------------------------------------------------------------------
(* Specifications *)

Next ==
  \/ LoadEffect
  \/ PersistEffectOnMount
  \/ EffectsRunAgain
  \/ CommitLoaded
  \/ Reload
  \/ TimePasses
  \/ Tick
  \/ \E v \in GoalTexts : setGoalInput(v)
  \/ \E v \in DeadlineTexts : setDeadlineInput(v)
  \/ handleAddTrackerRejected
  \/ handleAddTrackerAccepted
  \/ handleReset
  \/ \E id \in RemoveIds : handleRemove(id)
  \/ \E m \in ModeButtons : setMode(m)

Spec == Init /\ [][Next]_vars

----------------------------------------------------------------------------
(* The time-math specification: one persisted tracker with any start time    *)
(* and deadline of 0..MaxInstant, the clock running and the ticker firing.   *)

TimeMathTrackers ==
  { [id |-> 0, goal |-> <<"a">>, startTime |-> s, deadline |-> d, quoteIndex |-> 0] :
      s \in 0..MaxInstant, d \in 0..MaxInstant }

InitTimeMath ==
  /\ clock = 0
  /\ now = 0
  /\ \E tr \in TimeMathTrackers :
       /\ trackers = <<tr>>
       /\ storage = stringify(<<tr>>, "circular")
  /\ mode = "circular"
  /\ goalInput = <<>>
  /\ deadlineInput = <<>>
  /\ pc = "ready"
  /\ raw = Absent
  /\ queued = NoUpdates
  /\ event = Ev("mount", "")

NextTimeMath ==
  \/ TimePassesUpTo(MaxInstant)
  \/ Tick

SpecTimeMath == InitTimeMath /\ [][NextTimeMath]_vars

----------------------------------------------------------------------------
(* The duration specification: one persisted tracker whose deadline lies a   *)
(* whole number of seconds, minutes or hours, and of days, before or after  *)
(* the present, the clock running a few milliseconds around the present and *)
(* the ticker firing. The difference deadline - now then takes the values   *)
(* around every instant at which a part of the countdown rolls over.        *)

\* the milliseconds of a second, a minute, an hour; of a day
DurationUnits == {1000, 60 * 1000, 3600 * 1000}
DayMs == 86400 * 1000

\* an instant late enough for every deadline to be a non-negative instant
Present == MaxUnits * 3600 * 1000 + MaxOffset

DurationTrackers ==
  { [id |-> 0, goal |-> <<"a">>, startTime |-> 0,
     deadline |-> Present + d * DayMs + q * u, quoteIndex |-> 0] :
      d \in 0..MaxDays, q \in (0 - MaxUnits)..MaxUnits, u \in DurationUnits }

InitDuration ==
  /\ clock = Present - MaxOffset
  /\ now = Present - MaxOffset
  /\ \E tr \in DurationTrackers :
       /\ trackers = <<tr>>
       /\ storage = stringify(<<tr>>, "circular")
  /\ mode = "circular"
  /\ goalInput = <<>>
  /\ deadlineInput = <<>>
  /\ pc = "ready"
  /\ raw = Absent
  /\ queued = NoUpdates
  /\ event = Ev("mount", "")

NextDuration ==
  \/ TimePassesUpTo(Present + MaxOffset)
  \/ Tick

SpecDuration == InitDuration /\ [][NextDuration]_vars

----------------------------------------------------------------------------
(* Claims *)

Last(seq) == seq[Len(seq)]
Front(seq) == SubSeq(seq, 1, Len(seq) - 1)
Added == Ev("handleAddTracker", "")

\* C1: the ids of the trackers in the collection are pairwise distinct; two
\* successful creates in a row, however close in time, yield distinct ids.
C1_IdsPairwiseDistinct ==
  \A i, j \in DOMAIN trackers :
    (i < j /\ IsTracker(trackers[i]) /\ IsTracker(trackers[j]))
      => trackers[i].id # trackers[j].id

\* C2: the tracker a successful create has just appended has
\* deadline > startTime, whatever time passed between the check of the
\* deadline against the clock and the read of the clock stored as startTime.
C2_DeadlineAfterStartTime ==
  (event = Added /\ trackers # <<>>)
    => Last(trackers).deadline > Last(trackers).startTime

\* C3: a successful create followed by remove with the id of the tracker
\* just created gives back the collection held before the create, in
\* contents and order.
C3_CreateThenRemoveRestores ==
  [][ \A id \in RemoveIds :
        ( /\ event = Added
          /\ pc = "ready"
          /\ id = idOf(Last(trackers))
          /\ handleRemove(id)
          /\ event' = Ev("handleRemove", "") )
        => trackers' = Front(trackers) ]_vars

\* the rejections that apply to the inputs at the instant t
Applicable(g, text, t) ==
  {e \in {EmptyGoal, InvalidDeadline, PastDeadline} :
     \/ e = EmptyGoal /\ trim(g) = <<>>
     \/ e = InvalidDeadline /\ dayjsValueOf(text) = NaN
     \/ e = PastDeadline /\ dayjsValueOf(text) # NaN /\ dayjsValueOf(text) <= t}

\* C4: a create with a goal blank after trimming, with a deadline text that
\* names no instant, or with a deadline not strictly after the current
\* instant (equal included) raises an alert of a case that applies and leaves
\* the collection, the mode and the persisted entry as they were.
C4_RejectedCreateChangesNothing ==
  [][ (handleAddTracker /\ Applicable(goalInput, deadlineInput, clock) # {})
        => /\ event'.by = "handleAddTracker"
           /\ event'.alert \in Applicable(goalInput, deadlineInput, clock)
           /\ trackers' = trackers
           /\ mode' = mode
           /\ storage' = storage
           /\ pc' = pc ]_vars

C4_Witness ==
  /\ event = Ev("handleAddTracker", PastDeadline)
  /\ dayjsValueOf(deadlineInput) = clock
  /\ trackers # <<>>
  /\ mode = "bar"

\* a document of the entry that is a well-formed Tracker record
WellFormedTrackerDoc(d) ==
  /\ d.t = "obj"
  /\ DOMAIN d.v = TrackerFields
  /\ d.v.goal.t = "str"
  /\ \A k \in TrackerFields \ {"goal"} : d.v[k].t = "num"

WellFormedEntry(r) ==
  /\ r.kind = "json"
  /\ r.doc.t = "obj"
  /\ DOMAIN r.doc.v = {"trackers", "mode"}
  /\ r.doc.v.trackers.t = "arr"
  /\ \A i \in DOMAIN r.doc.v.trackers.v : WellFormedTrackerDoc(r.doc.v.trackers.v[i])
  /\ r.doc.v.mode \in {JStr("circular"), JStr("bar")}

CorruptEntry(r) == r.kind # "absent" /\ ~WellFormedEntry(r)

\* C5: rehydrating from an entry that is unparsable or structurally invalid
\* yields the empty collection and mode circular, and the application does
\* not crash (a failure of the write that follows is another matter).
C5_CorruptEntryFallsBack ==
  [][ (pc = "commit" /\ CorruptEntry(raw) /\ CommitLoaded
         /\ event' # Ev("persistEffect", ""))
        => (pc' = "ready" /\ trackers' = <<>> /\ mode' = "circular") ]_vars

\* the state a fresh start reaches from the entry r
rehydrated(r) ==
  [trackers |-> applyUpdate(<<>>, loadUpdates(r).trackers),
   mode |-> applyUpdate("circular", loadUpdates(r).mode)]

\* C6: in every settled state the entry the persist effect has written
\* rehydrates to the collection (same trackers, fields and order) and the
\* mode held in memory.
C6_WriteThenRehydrate ==
  pc = "ready" => rehydrated(storage) = [trackers |-> trackers, mode |-> mode]

C6_Witness ==
  /\ pc = "ready"
  /\ event = Ev("mount", "")
  /\ Len(trackers) = 2
  /\ IsTracker(trackers[1]) /\ IsTracker(trackers[2])
  /\ trackers[1].id # 0
  /\ trackers[1].quoteIndex # trackers[2].quoteIndex
  /\ mode = "bar"
  /\ storage = stringify(trackers, mode)

\* C7: the display mode is always one of circular and bar.
C7_ModeIsRecognized == mode \in {"circular", "bar"}

\* C8: a step of the ticker changes neither the collection nor the mode nor
\* the persisted entry, and a tracker whose deadline has passed is still
\* there, shown as expired.
C8_TickChangesOnlyNow ==
  [][ (event' = Ev("ticker", "") /\ (event # event' \/ now' # now))
        => /\ trackers' = trackers
           /\ mode' = mode
           /\ storage' = storage
           /\ \A i \in DOMAIN trackers' :
                (IsTracker(trackers'[i]) /\ trackers'[i].deadline <= now')
                  => TrackerCard(trackers'[i], now').remainingMs = 0 ]_vars

C8_Witness ==
  /\ event = Ev("ticker", "")
  /\ \E i \in DOMAIN trackers :
       /\ IsTracker(trackers[i])
       /\ trackers[i].startTime < trackers[i].deadline
       /\ trackers[i].deadline <= now
  /\ \E i \in DOMAIN trackers :
       IsTracker(trackers[i]) /\ trackers[i].deadline > now

\* C9: for a tracker with deadline > startTime, at the current instant and
\* at every later one, once now >= deadline the remaining time is 0 and the
\* percent is exactly 100.
C9_ExpiredStaysAtHundred ==
  \A i \in DOMAIN trackers :
    LET tr == trackers[i]
    IN (IsTracker(tr) /\ tr.deadline > tr.startTime /\ now >= tr.deadline)
         => \A n \in now..MaxInstant :
              /\ TrackerCard(tr, n).remainingMs = 0
              /\ fracEq(TrackerCard(tr, n).percent, Frac(100, 1))
              /\ derivedTimes(TRUE, tr.startTime, tr.deadline, n).remainingMs = 0
              /\ fracEq(derivedTimes(TRUE, tr.startTime, tr.deadline, n).percent,
                        Frac(100, 1))

C9_Witness ==
  /\ event = Ev("ticker", "")
  /\ Len(trackers) = 1
  /\ trackers[1].startTime > 0
  /\ trackers[1].deadline > trackers[1].startTime + 1
  /\ now > trackers[1].deadline

\* C10: for a tracker with deadline > startTime and startTime <= now <=
\* deadline, the percent lies in [0, 100] and is not greater than the percent
\* at any later instant up to the deadline.
C10_PercentBoundedMonotone ==
  \A i \in DOMAIN trackers :
    LET tr == trackers[i]
    IN (IsTracker(tr) /\ tr.deadline > tr.startTime
          /\ tr.startTime <= now /\ now <= tr.deadline)
         => /\ fracLessEq(Frac(0, 1), TrackerCard(tr, now).percent)
            /\ fracLessEq(TrackerCard(tr, now).percent, Frac(100, 1))
            /\ \A n \in now..tr.deadline :
                 fracLessEq(TrackerCard(tr, now).percent, TrackerCard(tr, n).percent)

C10_Witness ==
  /\ event = Ev("ticker", "")
  /\ Len(trackers) = 1
  /\ trackers[1].startTime < now
  /\ now < trackers[1].deadline
  /\ ~fracEq(TrackerCard(trackers[1], now).percent, Frac(0, 1))
  /\ ~fracEq(TrackerCard(trackers[1], now).percent, Frac(100, 1))
  /\ trackers[1].deadline - trackers[1].startTime = 3

\* C11: for every non-negative input msToDHMS returns hours in 0..23, minutes
\* and seconds in 0..59, days >= 0, and parts that add up to the whole
\* seconds of the input; for every negative input all four parts are 0.
C11_PartsOfDuration ==
  \A i \in DOMAIN trackers :
    IsTracker(trackers[i]) =>
      LET ms == trackers[i].deadline - now
          p == msToDHMS(ms)
      IN /\ ms >= 0 =>
              /\ p.days >= 0
              /\ p.hours \in 0..23
              /\ p.minutes \in 0..59
              /\ p.seconds \in 0..59
              /\ p.days * 86400 + p.hours * 3600 + p.minutes * 60 + p.seconds
                   = ms \div 1000
              /\ remainingParts(trackers[i], now) = p
         /\ ms < 0 =>
              /\ p = [days |-> 0, hours |-> 0, minutes |-> 0, seconds |-> 0]
              /\ remainingParts(trackers[i], now) = p

C11_Witness ==
  /\ event = Ev("ticker", "")
  /\ Len(trackers) = 1
  /\ (trackers[1].deadline - now) % 1000 = 999
  /\ msToDHMS(trackers[1].deadline - now)
       = [days |-> 1, hours |-> 23, minutes |-> 59, seconds |-> 59]

\* the sequence without its i-th element
RemoveAt(seq, i) == SubSeq(seq, 1, i - 1) \o SubSeq(seq, i + 1, Len(seq))

\* C12: a remove with an id that no tracker has leaves the collection as it
\* is; a remove with an id that a tracker has takes that one tracker out and
\* keeps every other tracker, in the same order and with the same fields;
\* the mode is the same after either.
C12_RemoveTakesOneOut ==
  [][ \A id \in RemoveIds :
        (handleRemove(id) /\ event' = Ev("handleRemove", ""))
          => LET matching == {i \in DOMAIN trackers : idOf(trackers[i]) = id}
             IN /\ mode' = mode
                /\ matching = {} => trackers' = trackers
                /\ matching # {} =>
                     \E i \in matching : trackers' = RemoveAt(trackers, i) ]_vars

\* the collection and mode each mutation open in the current state produces
MutationOutcomes ==
  {<<removeById(trackers, id), mode>> : id \in RemoveIds}
    \cup {<<<<>>, mode>>}
    \cup {<<trackers, m>> : m \in ModeButtons \ {mode}}
    \cup IF rejection(goalInput, deadlineInput, clock) # "" THEN {}
         ELSE {<<appendTracker(trackers,
                   newTracker(goalInput, deadlineInput, clock + d[1],
                              clock + d[1] + d[2], r)), mode>> :
                 d \in (0..MaxDrift) \X (0..MaxDrift), r \in RandomDraws}

\* C13: when the write of the entry fails after a mutation, nothing of the
\* failure shows: the application keeps running, and the collection and the
\* mode in memory are those the mutation produced.
C13_WriteFailureKeepsState ==
  [][ (pc = "ready" /\ event' = Ev("persistEffect", ""))
        => /\ pc' = "ready"
           /\ <<trackers', mode'>> \in MutationOutcomes ]_vars

\* C14: while the application starts, and until the user creates, removes,
\* clears or sets the mode, the entry is never overwritten with a collection
\* or mode other than the stored one, whatever the order of the load effect,
\* the persist effect, a reload and a repeated run of the effects; and the
\* state in memory at the end of the start is the state that was stored.
C14_StartKeepsStoredState ==
  [][ /\ (pc \in {"load", "persist", "commit"} /\ WellFormedEntry(storage))
          => rehydrated(storage') = rehydrated(storage)
      /\ (pc = "commit" /\ pc' = "ready" /\ WellFormedEntry(raw))
          => [trackers |-> trackers', mode |-> mode'] = rehydrated(raw) ]_vars

====
